---- MODULE Spec2Model ----
(***************************************************************************)
(* Peer-to-peer anti-entropy synchronization engine (CommunicationService). *)
(* The model follows src/CommunicationService.ts: the background loop, the  *)
(* BLE scanner with its single-flight flag isScanning, the session run by   *)
(* connectToDevice, and the store operations generateDataSummary,           *)
(* getMissingDataFromRemote and handleReceivedData.                         *)
(***************************************************************************)
EXTENDS Integers, Sequences, FiniteSets, TLC

(* ------------------------------ bounds --------------------------------- *)
\* record identifiers 1..MaxId (DisasterData._id)
MaxId == 3
\* timestamps 1..MaxTime (DisasterData.timestamp, as milliseconds)
MaxTime == 2
\* largest store in the specifications of the store operations
MaxStore == 3
\* background tasks alive at a time (a task lives from BackgroundJob.start until
\* its loop has ended)
MaxLoops == 1
\* sessions (connectToDevice calls) whose records are kept at a time
MaxSessions == 2
\* longest batch a peer returns from the data characteristic
MaxBatch == 1
\* permission requests of startBeaconCommunication outstanding at a time
MaxPending == 1
\* longest batch ingested in the specification of the store operations
MaxIngest == 2

(* ------------------------------ records -------------------------------- *)
\* deviceId values of stored records (DisasterData.deviceId)
Origins == {"A", "B"}

Ids == 1..MaxId

Times == 1..MaxTime

\* a DisasterData object, reduced to the fields the engine reads
Rec(i, d, t) == [id |-> i, deviceId |-> d, timestamp |-> t]

\* every well-formed record
Records == {Rec(i, d, t) : i \in Ids, d \in Origins, t \in Times}

\* a received value that is null or undefined
Null == Rec(0, "", 0)

\* the ids held by a store
IdsOf(data) == {data[i].id : i \in 1..Len(data)}

\* the records held by a store
RecordsOf(data) == {data[i] : i \in 1..Len(data)}

\* stores: sequences of at most n records, in Realm's iteration order, the
\* primary key unique
RECURSIVE StoreSeqs(_)
StoreSeqs(n) ==
  IF n = 0 THEN {<<>>}
  ELSE LET shorter == StoreSeqs(n - 1)
       IN shorter \cup
          {Append(p[1], p[2]) :
             p \in {q \in shorter \X Records :
                      Len(q[1]) = n - 1 /\ q[2].id \notin IdsOf(q[1])}}

(* --------------------------- store operations --------------------------- *)
\* the summary object {}: no key
EmptySummary == [k \in {} |-> 0]

\* data.forEach of generateDataSummary, from index i on
RECURSIVE SummaryFold(_, _, _)
SummaryFold(data, i, summary) ==
  IF i > Len(data) THEN summary
  ELSE LET deviceId == data[i].deviceId
           timestamp == data[i].timestamp
       IN IF deviceId \notin DOMAIN summary \/ timestamp > summary[deviceId]
          THEN SummaryFold(data, i + 1,
                 [k \in DOMAIN summary \cup {deviceId} |->
                    IF k = deviceId THEN timestamp ELSE summary[k]])
          ELSE SummaryFold(data, i + 1, summary)

\* generateDataSummary without the comparison: the last record of an origin wins
GenerateDataSummaryLastWins(data) ==
  [k \in {data[i].deviceId : i \in 1..Len(data)} |->
     LET last == CHOOSE i \in 1..Len(data) :
                   /\ data[i].deviceId = k
                   /\ \A j \in 1..Len(data) : data[j].deviceId = k => j <= i
     IN data[last].timestamp]

GenerateDataSummary(data) == SummaryFold(data, 1, EmptySummary)

\* getMissingDataFromRemote's condition with <= for <: ties are pushed
ShouldSendTies(remoteSummary, record) ==
  \/ record.deviceId \notin DOMAIN remoteSummary
  \/ remoteSummary[record.deviceId] <= record.timestamp

\* the condition under which getMissingDataFromRemote pushes a record
ShouldSend(remoteSummary, record) ==
  \/ record.deviceId \notin DOMAIN remoteSummary
  \/ remoteSummary[record.deviceId] < record.timestamp

GetMissingDataFromRemote(remoteSummary, data) ==
  SelectSeq(data, LAMBDA record : ShouldSend(remoteSummary, record))

\* the write transaction without the objectForPrimaryKey lookup
InsertAlways(data, receivedData) == Append(data, receivedData)

\* the write transaction as an upsert: a record with the id is replaced
InsertOrReplace(data, receivedData) ==
  IF \E i \in 1..Len(data) : data[i].id = receivedData.id
  THEN [i \in 1..Len(data) |->
          IF data[i].id = receivedData.id THEN receivedData ELSE data[i]]
  ELSE Append(data, receivedData)

\* the write transaction of handleReceivedData
InsertIfAbsent(data, receivedData) ==
  IF \E i \in 1..Len(data) : data[i].id = receivedData.id
  THEN data
  ELSE Append(data, receivedData)

\* handleReceivedData without the test of bgRealm.isClosed
HandleReceivedDataAnyRealm(data, receivedData, isClosed, writeThrows) ==
  IF receivedData = Null \/ receivedData.deviceId = ""
  THEN data
  ELSE IF writeThrows THEN data
  ELSE InsertIfAbsent(data, receivedData)

\* handleReceivedData; isClosed is bgRealm.isClosed, writeThrows says that
\* bgRealm.write throws (the transaction rolls back and the error is caught)
HandleReceivedData(data, receivedData, isClosed, writeThrows) ==
  IF receivedData = Null \/ receivedData.deviceId = "" \/ isClosed
  THEN data
  ELSE IF writeThrows THEN data
  ELSE InsertIfAbsent(data, receivedData)

\* the forEach over a handleReceivedData that does not catch (as in
\* src/realm.ts): the first write that throws ends the batch
RECURSIVE IngestBatchAborts(_, _, _, _, _)
IngestBatchAborts(data, batch, i, isClosed, throws) ==
  IF i > Len(batch) THEN data
  ELSE IF batch[i] # Null /\ batch[i].deviceId # "" /\ ~isClosed /\ throws[i]
  THEN data
  ELSE IngestBatchAborts(HandleReceivedData(data, batch[i], isClosed, throws[i]),
                         batch, i + 1, isClosed, throws)

\* receivedDataFromRemote.forEach(record => handleReceivedData(record, bgRealm)),
\* from index i on; throws[i] says whether the i-th write throws
RECURSIVE IngestBatch(_, _, _, _, _)
IngestBatch(data, batch, i, isClosed, throws) ==
  IF i > Len(batch) THEN data
  ELSE IngestBatch(HandleReceivedData(data, batch[i], isClosed, throws[i]),
                   batch, i + 1, isClosed, throws)

(* ------------------------------- the codec ------------------------------ *)
\* A JavaScript value of a field that is no plain string: what kind of value it
\* is (an ObjectId, a Date, a string) and the id or instant it stands for.
ObjectIdValue(i) == [type |-> "objectId", value |-> i]

DateValue(t) == [type |-> "date", value |-> t]

\* the DisasterData object of a stored record: _id an ObjectId, timestamp a Date
JsRecord(record) ==
  [id |-> ObjectIdValue(record.id), deviceId |-> record.deviceId,
   timestamp |-> DateValue(record.timestamp)]

\* the array of objects handed to JSON.stringify
JsBatch(data) == [i \in 1..Len(data) |-> JsRecord(data[i])]

\* the summary object: per deviceId an object { timestamp: Date }
JsSummary(summary) == [k \in DOMAIN summary |-> DateValue(summary[k])]

\* toJSON of an ObjectId (its hex string) and of a Date (its ISO string): JSON
\* has no other form for them
ToJSON(v) == [type |-> "string", value |-> v.value]

\* JSON.stringify of an array of records: the text, by the value it denotes
StringifyBatch(batch) ==
  [json |-> [i \in 1..Len(batch) |->
               [id |-> ToJSON(batch[i].id), deviceId |-> batch[i].deviceId,
                timestamp |-> ToJSON(batch[i].timestamp)]]]

\* JSON.stringify of a summary object
StringifySummary(summary) ==
  [json |-> [k \in DOMAIN summary |-> ToJSON(summary[k])]]

\* Buffer.from(text).toString('base64')
ToBase64(text) == [base64 |-> text]

\* Buffer.from(payload, 'base64').toString('utf8')
FromBase64(payload) == payload.base64

\* JSON.parse: the value the text denotes, its strings left strings
Parse(text) == text.json

EncodeBatch(batch) == ToBase64(StringifyBatch(batch))

DecodeBatch(payload) == Parse(FromBase64(payload))

EncodeSummary(summary) == ToBase64(StringifySummary(summary))

DecodeSummary(payload) == Parse(FromBase64(payload))

\* new Date(v) of a Date or of an ISO string
NewDate(v) == DateValue(v.value)

\* the decoded remote summary as getMissingDataFromRemote reads it:
\* new Date(remoteSummary[deviceId].timestamp)
SummaryRead(decoded) == [k \in DOMAIN decoded |-> NewDate(decoded[k]).value]

\* summaries a remote device can send: a timestamp for some of the origins
RemoteSummaries == UNION {[D -> Times] : D \in SUBSET Origins}

\* values handleReceivedData can be handed: records, a record without origin, null
ReceivedValues == Records \cup {Rec(1, "", 1), Null}

(* ------------------------------ state ----------------------------------- *)
VARIABLES
  store,       \* the records of disaster.realm, in iteration order
  running,     \* BackgroundJob.isRunning()
  loop,        \* per background task: where it is
  isScanning,  \* CommunicationService.isScanning
  scan,        \* the radio scan of manager.startDeviceScan and its callback's bgRealm
               \* (the task that opened it; 0 once it is closed)
  sess,        \* per connectToDevice call: where it is and what it has done
  deviceData,  \* CommunicationService.deviceData
  beacon,      \* beaconSubscription, ranging, outstanding permission requests
  ev,          \* what the last step did with the scanner and the store
  peer,        \* the remote device of PairSpec: its store and the summaries exchanged
  fx           \* the last store operation applied and its result (FnSpec)

vars == <<store, running, loop, isScanning, scan, sess, deviceData, beacon,
          ev, peer, fx>>

\* the variables of the service other than the store
ctl == <<running, loop, isScanning, scan, sess, deviceData, beacon, ev>>

\* Platform.OS: the android build, where startBeaconCommunication awaits the
\* permission request (elsewhere it runs on without the await)
platform == "android"

Loops == 1..MaxLoops

Sessions == 1..MaxSessions

\* private localRealm: Realm | null = null; never assigned in this file
localRealm == "null"

\* a closed bgRealm, or none (a realm still open goes by the task that opened it)
ClosedRealm == 0

NoScan == [active |-> FALSE, realm |-> ClosedRealm]

NoSession == [pc |-> "none", realm |-> ClosedRealm, opened |-> FALSE, releases |-> 0]

\* a step that calls neither startBleCommunication nor handleReceivedData
NoCall == [call |-> "none", started |-> FALSE, conflict |-> FALSE]

\* the records the peers of the service hold
PeerRecords == {Rec(1, "A", 1), Rec(1, "A", 2), Rec(2, "B", 1)}

\* the elements of a decoded data payload: records, an origin-less record, null
PeerValues == PeerRecords \cup {Rec(1, "", 1), Null}

\* decoded data payloads
Batches == UNION {[1..k -> PeerValues] : k \in 0..MaxBatch}

\* the value of the summary characteristic after the write: none, a payload
\* JSON.parse rejects, or an encoded summary
SummaryResponses ==
  {[kind |-> "none"], [kind |-> "garbage"]}
    \cup {[kind |-> "json", value |-> rs] : rs \in RemoteSummaries}

\* the value read from the data characteristic: none, a payload JSON.parse
\* rejects (or that is no array), or an encoded batch
DataResponses ==
  {[kind |-> "none"], [kind |-> "garbage"]}
    \cup {[kind |-> "json", value |-> b] : b \in Batches}

\* nothing written to the data characteristic
NotWritten == [kind |-> "none"]

\* no remote device
NoPeer == [store |-> <<>>, pc |-> "idle", local |-> EmptySummary,
           remote |-> EmptySummary, written |-> NotWritten]

\* the state of the service after construction, the task not started
CtlInit ==
  /\ running = FALSE
  /\ loop = [l \in Loops |-> "idle"]
  /\ isScanning = FALSE
  /\ scan = NoScan
  /\ sess = [s \in Sessions |-> NoSession]
  /\ deviceData = Null
  /\ beacon = [subscription |-> FALSE, ranging |-> FALSE, pending |-> 0]
  /\ ev = NoCall

(* ------------------------ scanner (startBleCommunication) ---------------- *)
\* startBleCommunication(bgRealm) called with the flag at `flag` and the radio
\* scan at `sc`. The result is the flag, the radio scan and whether
\* startDeviceScan started a scan (a scan started while one is in flight takes
\* its place). A failure of startDeviceScan leaves what a scan that fails at
\* once leaves: the step ScanError.
StartBleCommunication(flag, sc, realm) ==
  IF flag THEN [isScanning |-> TRUE, scan |-> sc, started |-> FALSE]
  ELSE [isScanning |-> TRUE, scan |-> [active |-> TRUE, realm |-> realm],
        started |-> TRUE]

\* startBeaconCommunication(bgRealm) up to its first await: on android it
\* awaits PermissionsAndroid.request, elsewhere it starts ranging and
\* subscribes if there is no subscription
StartBeaconCommunication(b) ==
  IF platform = "android"
  THEN [b EXCEPT !.pending = @ + 1]
  ELSE [b EXCEPT !.ranging = TRUE, !.subscription = TRUE]

(* ------------------------------ public API ------------------------------- *)
\* updateDeviceData(data)
UpdateDeviceData(data) ==
  /\ deviceData' = data
  /\ store' = IF localRealm # "null" THEN InsertIfAbsent(store, data) ELSE store
  /\ ev' = NoCall
  /\ UNCHANGED <<running, loop, isScanning, scan, sess, beacon, peer, fx>>

\* startBackgroundCommunication(): BackgroundJob.start runs backgroundTask,
\* which awaits Realm.open
StartBackgroundCommunication ==
  /\ \E l \in Loops : loop[l] = "idle"
  /\ LET l == CHOOSE k \in Loops :
                /\ loop[k] = "idle"
                /\ \A j \in Loops : loop[j] = "idle" => k <= j
     IN loop' = [loop EXCEPT ![l] = "open"]
  /\ running' = TRUE
  /\ ev' = NoCall
  /\ UNCHANGED <<store, isScanning, scan, sess, deviceData, beacon, peer, fx>>

\* stopBackgroundCommunication()
StopBackgroundCommunication ==
  /\ running' = FALSE
  /\ scan' = NoScan
  /\ isScanning' = FALSE
  /\ beacon' = [beacon EXCEPT !.subscription = FALSE, !.ranging = FALSE]
  /\ ev' = NoCall
  /\ UNCHANGED <<store, loop, sess, deviceData, peer, fx>>

(* --------------------------- background loop ----------------------------- *)
\* the loop of task l at `while (BackgroundJob.isRunning())`: it awaits
\* manager.state(), or it ends and the finally block closes bgRealm, which the
\* scan callback and the sessions that were handed it then find closed
LoopTest(l) ==
  IF running
  THEN /\ loop' = [loop EXCEPT ![l] = "state"]
       /\ UNCHANGED <<scan, sess>>
  ELSE /\ loop' = [loop EXCEPT ![l] = "idle"]
       /\ scan' = IF scan.realm = l THEN [scan EXCEPT !.realm = ClosedRealm] ELSE scan
       /\ sess' = [s \in Sessions |->
                    IF sess[s].realm = l THEN [sess[s] EXCEPT !.realm = ClosedRealm]
                    ELSE sess[s]]

\* Realm.open resolves: the task enters the loop
RealmOpenResolved(l) ==
  /\ loop[l] = "open"
  /\ LoopTest(l)
  /\ ev' = NoCall
  /\ UNCHANGED <<store, running, isScanning, deviceData, beacon, peer, fx>>

\* Realm.open rejects: the task returns
RealmOpenRejected(l) ==
  /\ loop[l] = "open"
  /\ loop' = [loop EXCEPT ![l] = "idle"]
  /\ ev' = NoCall
  /\ UNCHANGED <<store, running, isScanning, scan, sess, deviceData, beacon, peer, fx>>

\* the loop body without the test `state === 'PoweredOn'`
StateResolvedAnyPower(l, state) ==
  /\ loop[l] = "state"
  /\ loop' = [loop EXCEPT ![l] = "sleep"]
  /\ IF state # "Rejected"
     THEN /\ platform = "android" => beacon.pending < MaxPending
          /\ LET b == StartBleCommunication(isScanning, scan, l)
             IN /\ isScanning' = b.isScanning
                /\ scan' = b.scan
                /\ ev' = [call |-> IF state = "PoweredOn" THEN "tick" ELSE "skip",
                          started |-> b.started, conflict |-> FALSE]
          /\ beacon' = StartBeaconCommunication(beacon)
     ELSE /\ ev' = NoCall
          /\ UNCHANGED <<isScanning, scan, beacon>>
  /\ UNCHANGED <<store, running, sess, deviceData, peer, fx>>

\* manager.state() resolves with `state` (or rejects): one pass of the loop
\* body, up to the sleep
StateResolved(l, state) ==
  /\ loop[l] = "state"
  /\ loop' = [loop EXCEPT ![l] = "sleep"]
  /\ IF state = "PoweredOn"
     THEN /\ platform = "android" => beacon.pending < MaxPending
          /\ LET b == StartBleCommunication(isScanning, scan, l)
             IN /\ isScanning' = b.isScanning
                /\ scan' = b.scan
                /\ ev' = [call |-> "tick", started |-> b.started,
                          conflict |-> FALSE]
          /\ beacon' = StartBeaconCommunication(beacon)
     ELSE /\ ev' = IF state = "Rejected" THEN NoCall
                   ELSE [call |-> "skip", started |-> FALSE, conflict |-> FALSE]
          /\ UNCHANGED <<isScanning, scan, beacon>>
  /\ UNCHANGED <<store, running, sess, deviceData, peer, fx>>

\* the sleep of the loop ends
SleepResolved(l) ==
  /\ loop[l] = "sleep"
  /\ LoopTest(l)
  /\ ev' = NoCall
  /\ UNCHANGED <<store, running, isScanning, deviceData, beacon, peer, fx>>

\* PermissionsAndroid.request resolves: the rest of startBeaconCommunication
PermissionResolved(granted) ==
  /\ beacon.pending > 0
  /\ beacon' = IF granted
               THEN [pending |-> beacon.pending - 1, ranging |-> TRUE,
                     subscription |-> TRUE]
               ELSE [beacon EXCEPT !.pending = @ - 1]
  /\ ev' = NoCall
  /\ UNCHANGED <<store, running, loop, isScanning, scan, sess, deviceData, peer, fx>>

(* ----------------------------- scan callback ----------------------------- *)
\* the error branch of the callback without `this.isScanning = false`
ScanErrorKeepsFlag ==
  /\ scan.active
  /\ scan' = NoScan
  /\ ev' = [call |-> "scanError", started |-> FALSE, conflict |-> FALSE]
  /\ UNCHANGED <<store, running, loop, isScanning, sess, deviceData, beacon,
                 peer, fx>>

\* the callback is handed an error: the flag is cleared (the callback does not
\* call stopDeviceScan; the radio has ended the scan that failed)
ScanError ==
  /\ scan.active
  /\ isScanning' = FALSE
  /\ scan' = NoScan
  /\ ev' = [call |-> "scanError", started |-> FALSE, conflict |-> FALSE]
  /\ UNCHANGED <<store, running, loop, sess, deviceData, beacon, peer, fx>>

\* the callback is handed a device without a name (or no device)
ScanDeviceUnnamed ==
  /\ scan.active
  /\ ev' = [call |-> "unnamed", started |-> FALSE, conflict |-> FALSE]
  /\ UNCHANGED <<store, running, loop, isScanning, scan, sess, deviceData,
                 beacon, peer, fx>>

\* the hand-off without manager.stopDeviceScan(): the scan stays in flight
ScanDeviceFoundKeepsScanning ==
  /\ scan.active
  /\ \E s \in Sessions : sess[s].pc \in {"none", "done"}
  /\ LET s == CHOOSE k \in Sessions :
                /\ sess[k].pc \in {"none", "done"}
                /\ \A j \in Sessions : sess[j].pc \in {"none", "done"} => k <= j
     IN sess' = [sess EXCEPT ![s] = [pc |-> "connecting", realm |-> scan.realm,
                                     opened |-> FALSE, releases |-> 0]]
  /\ isScanning' = FALSE
  /\ ev' = NoCall
  /\ UNCHANGED <<store, running, loop, scan, deviceData, beacon, peer, fx>>

\* the callback is handed a device with a name: the scan is stopped and
\* connectToDevice runs up to `await device.connect()`
ScanDeviceFound ==
  /\ scan.active
  /\ \E s \in Sessions : sess[s].pc \in {"none", "done"}
  /\ LET s == CHOOSE k \in Sessions :
                /\ sess[k].pc \in {"none", "done"}
                /\ \A j \in Sessions : sess[j].pc \in {"none", "done"} => k <= j
     IN sess' = [sess EXCEPT ![s] = [pc |-> "connecting", realm |-> scan.realm,
                                     opened |-> FALSE, releases |-> 0]]
  /\ scan' = NoScan
  /\ isScanning' = FALSE
  /\ ev' = NoCall
  /\ UNCHANGED <<store, running, loop, deviceData, beacon, peer, fx>>

(* ------------------------- session (connectToDevice) --------------------- *)
\* where connectToDevice awaits a radio operation inside its try block
Awaiting == {"connecting", "discovering", "summary", "deltaWrite", "deltaRead"}

\* a session is in progress from the hand-off until its disconnect has completed
InProgress(s) == sess[s].pc \in Awaiting \cup {"disconnecting"}

\* bgRealm.isClosed for the realm the session was handed
RealmClosed(s) == sess[s].realm = ClosedRealm

\* the finally block up to its await, without the call of cancelConnection
FinallyNoRelease(se) == [se EXCEPT !.pc = "disconnecting"]

\* the finally block up to its await: device.cancelConnection() is issued
Finally(se) == [se EXCEPT !.pc = "disconnecting", !.releases = @ + 1]

\* connectToDevice without `await discoverAllServicesAndCharacteristics()`
ConnectResolvedSkipsDiscovery(s) ==
  /\ sess[s].pc = "connecting"
  /\ sess' = [sess EXCEPT ![s].pc = "summary", ![s].opened = TRUE]
  /\ ev' = NoCall
  /\ UNCHANGED <<store, running, loop, isScanning, scan, deviceData, beacon, peer, fx>>

\* device.connect() resolves: discoverAllServicesAndCharacteristics is awaited
ConnectResolved(s) ==
  /\ sess[s].pc = "connecting"
  /\ sess' = [sess EXCEPT ![s].pc = "discovering", ![s].opened = TRUE]
  /\ ev' = NoCall
  /\ UNCHANGED <<store, running, loop, isScanning, scan, deviceData, beacon, peer, fx>>

\* the rejection of the awaited operation reaching the background tasks: they end
RadioOperationRejectedStopsLoop(s) ==
  /\ sess[s].pc \in Awaiting
  /\ sess' = [sess EXCEPT ![s] = Finally(sess[s])]
  /\ loop' = [l \in Loops |-> "idle"]
  /\ ev' = NoCall
  /\ UNCHANGED <<store, running, isScanning, scan, deviceData, beacon, peer, fx>>

\* the awaited radio operation rejects and nothing catches it: connectToDevice
\* ends with the rejection, no finally block
RadioOperationRejectedNoFinally(s) ==
  /\ sess[s].pc \in Awaiting
  /\ sess' = [sess EXCEPT ![s].pc = "done", ![s].realm = ClosedRealm]
  /\ ev' = NoCall
  /\ UNCHANGED <<store, running, loop, isScanning, scan, deviceData, beacon, peer, fx>>

\* the awaited radio operation of the try block rejects: catch, then finally
RadioOperationRejected(s) ==
  /\ sess[s].pc \in Awaiting
  /\ sess' = [sess EXCEPT ![s] = Finally(sess[s])]
  /\ ev' = NoCall
  /\ UNCHANGED <<store, running, loop, isScanning, scan, deviceData, beacon, peer, fx>>

\* service discovery resolves: the local summary is generated (which throws on
\* a closed realm) and written to the summary characteristic
DiscoverResolved(s) ==
  /\ sess[s].pc = "discovering"
  /\ sess' = IF RealmClosed(s)
             THEN [sess EXCEPT ![s] = Finally(sess[s])]
             ELSE [sess EXCEPT ![s].pc = "summary"]
  /\ ev' = NoCall
  /\ UNCHANGED <<store, running, loop, isScanning, scan, deviceData, beacon, peer, fx>>

\* a step that found the summary response missing or undecodable
NoSummary == [call |-> "noSummary", started |-> FALSE, conflict |-> FALSE]

\* the summary exchange without the test of the value and with a decoder that
\* yields {} for what it cannot decode: the session goes on to reconcile
SummaryWriteResolvedLenient(s, response) ==
  /\ sess[s].pc = "summary"
  /\ sess' = IF RealmClosed(s)
             THEN [sess EXCEPT ![s] = Finally(sess[s])]
             ELSE IF Len(GetMissingDataFromRemote(
                           IF response.kind = "json" THEN response.value
                           ELSE EmptySummary, store)) > 0
             THEN [sess EXCEPT ![s].pc = "deltaWrite"]
             ELSE [sess EXCEPT ![s].pc = "deltaRead"]
  /\ ev' = IF response.kind # "json" THEN NoSummary ELSE NoCall
  /\ UNCHANGED <<store, running, loop, isScanning, scan, deviceData, beacon, peer, fx>>

\* the summary write resolves with the characteristic's value: the remote
\* summary is decoded, the missing records are computed and, if there are any,
\* written to the data characteristic; then the data characteristic is read
SummaryWriteResolved(s, response) ==
  /\ sess[s].pc = "summary"
  /\ sess' = IF response.kind # "json" \/ RealmClosed(s)
             THEN [sess EXCEPT ![s] = Finally(sess[s])]
             ELSE IF Len(GetMissingDataFromRemote(response.value, store)) > 0
             THEN [sess EXCEPT ![s].pc = "deltaWrite"]
             ELSE [sess EXCEPT ![s].pc = "deltaRead"]
  /\ ev' = IF response.kind # "json" THEN NoSummary ELSE NoCall
  /\ UNCHANGED <<store, running, loop, isScanning, scan, deviceData, beacon, peer, fx>>

\* the data write resolves: the data characteristic is read
DataWriteResolved(s) ==
  /\ sess[s].pc = "deltaWrite"
  /\ sess' = [sess EXCEPT ![s].pc = "deltaRead"]
  /\ ev' = NoCall
  /\ UNCHANGED <<store, running, loop, isScanning, scan, deviceData, beacon, peer, fx>>

\* the data read with a decoder that hands over records as it goes: of a
\* payload that breaks off after its first record, that record is ingested
DataReadResolvedStreaming(s, response, throws) ==
  /\ sess[s].pc = "deltaRead"
  /\ store' = IF response.kind = "json"
              THEN IngestBatch(store, response.value, 1, RealmClosed(s), throws)
              ELSE IF response.kind = "garbage"
              THEN HandleReceivedData(store, Rec(2, "B", 1), RealmClosed(s), FALSE)
              ELSE store
  /\ sess' = [sess EXCEPT ![s] = Finally(sess[s])]
  /\ ev' = [call |-> IF response.kind = "garbage" THEN "badData" ELSE "none",
            started |-> FALSE, conflict |-> FALSE]
  /\ UNCHANGED <<running, loop, isScanning, scan, deviceData, beacon, peer, fx>>

\* the data read resolves with the characteristic's value: a decoded batch is
\* ingested record by record; then the finally block
DataReadResolved(s, response, throws) ==
  /\ sess[s].pc = "deltaRead"
  /\ store' = IF response.kind = "json"
              THEN IngestBatch(store, response.value, 1, RealmClosed(s), throws)
              ELSE store
  /\ sess' = [sess EXCEPT ![s] = Finally(sess[s])]
  /\ ev' = [call |-> IF response.kind = "garbage" THEN "badData" ELSE "none",
            started |-> FALSE,
            conflict |-> /\ response.kind = "json"
                         /\ \E i \in 1..Len(response.value) :
                              \E j \in 1..Len(store) :
                                /\ response.value[i].id = store[j].id
                                /\ response.value[i] # store[j]]
  /\ UNCHANGED <<running, loop, isScanning, scan, deviceData, beacon, peer, fx>>

\* device.cancelConnection() resolves: the flag is cleared and
\* startBleCommunication is called
DisconnectResolved(s) ==
  /\ sess[s].pc = "disconnecting"
  /\ sess' = [sess EXCEPT ![s].pc = "done", ![s].realm = ClosedRealm]
  /\ LET b == StartBleCommunication(FALSE, scan, sess[s].realm)
     IN /\ isScanning' = b.isScanning
        /\ scan' = b.scan
        /\ ev' = [call |-> "finally", started |-> b.started, conflict |-> FALSE]
  /\ UNCHANGED <<store, running, loop, deviceData, beacon, peer, fx>>

\* device.cancelConnection() rejects: connectToDevice ends with the rejection
DisconnectRejected(s) ==
  /\ sess[s].pc = "disconnecting"
  /\ sess' = [sess EXCEPT ![s].pc = "done", ![s].realm = ClosedRealm]
  /\ ev' = NoCall
  /\ UNCHANGED <<store, running, loop, isScanning, scan, deviceData, beacon, peer, fx>>

(* ----------------------------- specification ----------------------------- *)
\* the store as the service finds it: disaster.realm holds what earlier runs left
Init ==
  /\ CtlInit
  /\ store \in {<<>>} \cup {<<r>> : r \in PeerRecords}
  /\ peer = NoPeer
  /\ fx = [op |-> "none"]

Next ==
  \/ \E data \in {Rec(2, "B", 1)} : UpdateDeviceData(data)
  \/ StartBackgroundCommunication
  \/ StopBackgroundCommunication
  \/ \E l \in Loops : RealmOpenResolved(l)
  \/ \E l \in Loops : RealmOpenRejected(l)
  \/ \E l \in Loops, state \in {"PoweredOn", "PoweredOff", "Rejected"} :
       StateResolved(l, state)
  \/ \E l \in Loops : SleepResolved(l)
  \/ \E granted \in BOOLEAN : PermissionResolved(granted)
  \/ ScanError
  \/ ScanDeviceUnnamed
  \/ ScanDeviceFound
  \/ \E s \in Sessions : ConnectResolved(s)
  \/ \E s \in Sessions : RadioOperationRejected(s)
  \/ \E s \in Sessions : DiscoverResolved(s)
  \/ \E s \in Sessions, response \in SummaryResponses :
       SummaryWriteResolved(s, response)
  \/ \E s \in Sessions : DataWriteResolved(s)
  \/ \E s \in Sessions, response \in DataResponses,
        throws \in [1..MaxBatch -> BOOLEAN] :
       /\ response.kind # "json" => \A i \in 1..MaxBatch : ~throws[i]
       /\ response.kind = "json" =>
            \A i \in 1..MaxBatch : i > Len(response.value) => ~throws[i]
       /\ DataReadResolved(s, response, throws)
  \/ \E s \in Sessions : DisconnectResolved(s)
  \/ \E s \in Sessions : DisconnectRejected(s)

Spec == Init /\ [][Next]_vars

(* ------------------------------ service: claims ------------------------- *)
\* C1: at any time at most one session is in progress (from the hand-off of a
\* candidate to connectToDevice until its disconnect has completed).
C1_AtMostOneSession == Cardinality({s \in Sessions : InProgress(s)}) <= 1

\* C2: no scan is started while a session is in progress, neither by a tick of
\* the background loop nor by the end of another session.
C2_NoScanDuringSession == ev.started => \A s \in Sessions : ~InProgress(s)

\* C3: a call of startBleCommunication made while a radio scan is in flight is
\* a no-op: it starts no scan.
C3_StartWhileScanningIsNoop ==
  [][(scan.active /\ ev'.call # "none") => ~ev'.started]_vars

\* C4: on every path through a session device.cancelConnection() is issued
\* exactly once: not before the try block is left, once when the finally block
\* is entered, and never again before or after the session has ended.
C4_ReleasedExactlyOnce ==
  \A s \in Sessions :
    /\ sess[s].pc \in Awaiting \cup {"none"} => sess[s].releases = 0
    /\ sess[s].pc \in {"disconnecting", "done"} => sess[s].releases = 1

\* a session that opened a connection and has ended
C4_Witness ==
  \E s \in Sessions :
    sess[s].pc = "done" /\ sess[s].opened /\ sess[s].releases = 1

\* C5: the step that ends a session (its disconnect completing or failing)
\* starts exactly one scan.
C5_RearmedOnceAfterSession ==
  [][\A s \in Sessions :
       (sess[s].pc = "disconnecting" /\ sess'[s].pc = "done")
         => (ev'.call = "finally" /\ ev'.started)]_vars

\* C10: the store only grows: every step leaves every stored record in place
\* and unchanged, and no two stored records share an id.
C10_StoreOnlyGrows ==
  /\ [](\A i, j \in 1..Len(store) : store[i].id = store[j].id => i = j)
  /\ [][/\ Len(store') >= Len(store)
        /\ \A i \in 1..Len(store) : store'[i] = store[i]]_vars

\* after a record was submitted and the service stopped, a session has just
\* ingested a payload that holds a record whose id is stored with other
\* fields, and the store holds two records
C10_Witness ==
  /\ ev.conflict
  /\ Len(store) = 2
  /\ deviceData # Null
  /\ ~running

\* C11: once updateDeviceData has been called with a record, the store holds a
\* record with that record's id (the record itself if the id was new), whether
\* or not the service was started and whether or not a session is in progress.
C11_SubmittedRecordStored ==
  deviceData # Null => deviceData.id \in IdsOf(store)

\* C12: while the service is stopped (from stopBackgroundCommunication until the
\* next startBackgroundCommunication) no radio scan is in flight: no tick and
\* no ending session starts one.
C12_NoScanWhileStopped == ~running => ~scan.active

\* C13: while the service is stopped no beacon subscription is held and beacon
\* ranging is off: a permission request that was outstanding at the stop
\* creates no subscription when it resolves.
C13_NoSubscriptionWhileStopped ==
  ~running => (~beacon.subscription /\ ~beacon.ranging)

HandedOff ==
  {s \in Sessions : sess[s].pc \in {"none", "done"} /\ sess'[s].pc = "connecting"}

\* C15: a step that hands a candidate to connectToDevice hands it to one
\* session, is taken by a scan in flight and ends that scan and clears the flag,
\* so the scan delivers nothing more; a step that leaves the scan in flight
\* hands off nothing, and a device without a name changes neither the scan, the
\* flag nor the sessions.
C15_OneHandOffPerScan ==
  [][/\ HandedOff # {} =>
          /\ Cardinality(HandedOff) = 1
          /\ scan.active
          /\ ~scan'.active
          /\ ~isScanning'
     /\ (scan.active /\ scan'.active) => HandedOff = {}
     /\ ev'.call = "unnamed" => (scan.active /\ UNCHANGED <<scan, isScanning, sess>>)
    ]_vars

\* a scan has handed a candidate to connectToDevice and is over, the session
\* awaiting its connect
C15_Witness ==
  /\ \E s \in Sessions : sess[s].pc = "connecting"
  /\ ~scan.active
  /\ ~isScanning
  /\ running

\* C16: a tick that observes the radio not powered on changes neither the
\* scan, the flag, the beacon ranging, the sessions nor the store, and its
\* task goes on to the sleep of the loop.
C16_RadioOffTickSkipped ==
  [][ev'.call = "skip" =>
       /\ UNCHANGED <<isScanning, scan, beacon, sess, store, running>>
       /\ \E l \in Loops : loop[l] = "state" /\ loop'[l] = "sleep"
    ]_vars

\* a tick of the running service has just observed the radio not powered on;
\* nothing is scanning, ranging or in session and the task sleeps
C16_Witness ==
  /\ ev.call = "skip"
  /\ running
  /\ ~scan.active
  /\ ~beacon.ranging
  /\ beacon.pending = 0
  /\ \A s \in Sessions : sess[s].pc = "none"
  /\ \E l \in Loops : loop[l] = "sleep"

\* the order of the awaits of connectToDevice: from each position, the
\* positions a session can be at next
SessionOrder ==
  {<<"none", "connecting">>, <<"done", "connecting">>,
   <<"connecting", "discovering">>, <<"connecting", "disconnecting">>,
   <<"discovering", "summary">>, <<"discovering", "disconnecting">>,
   <<"summary", "deltaWrite">>, <<"summary", "deltaRead">>,
   <<"summary", "disconnecting">>,
   <<"deltaWrite", "deltaRead">>, <<"deltaWrite", "disconnecting">>,
   <<"deltaRead", "disconnecting">>,
   <<"disconnecting", "done">>}

\* C21: a session moves only along connect, discover, summary exchange, delta
\* write (if any), delta read, disconnect, leaving a step either for the next
\* one or for the disconnect; the data characteristic is written or read only
\* after the summary exchange, the read follows with or without a write, and
\* the store is written only by the step that completes the delta read.
C21_SessionStepOrder ==
  /\ [][\A s \in Sessions :
          sess'[s].pc # sess[s].pc => <<sess[s].pc, sess'[s].pc>> \in SessionOrder]_vars
  /\ [][store' # store =>
          \E s \in Sessions :
            sess[s].pc = "deltaRead" /\ sess'[s].pc = "disconnecting"]_vars

\* a session that opened its connection has read the data characteristic and
\* ingested a batch, and now awaits its disconnect
C21_Witness ==
  \E s \in Sessions :
    /\ sess[s].pc = "disconnecting"
    /\ sess[s].opened
    /\ ev.conflict

\* C22: the step that finds the summary response missing or undecodable takes
\* its session from the summary exchange straight to the disconnect, the
\* connection released, and leaves the store unchanged; and no session leaves a
\* step of its try block for anything but a later step or the disconnect, nor
\* ends from anywhere but the disconnect.
C22_NoSummaryFailsSession ==
  /\ [][ev'.call = "noSummary" =>
          /\ store' = store
          /\ \E s \in Sessions :
               /\ sess[s].pc = "summary"
               /\ sess'[s].pc = "disconnecting"
               /\ sess'[s].releases = 1
          /\ \A s \in Sessions : sess'[s].pc \in {"deltaWrite", "deltaRead"}
                                     => sess'[s] = sess[s]]_vars
  /\ [][\A s \in Sessions :
          /\ (sess[s].pc \in Awaiting /\ sess'[s].pc # sess[s].pc)
               => sess'[s].pc \in Awaiting \cup {"disconnecting"}
          /\ (sess'[s].pc = "done" /\ sess[s].pc # "done")
               => sess[s].pc = "disconnecting"]_vars

\* a session has just found the summary response missing or undecodable while
\* the store holds a record: it awaits its disconnect
C22_Witness ==
  /\ ev.call = "noSummary"
  /\ Len(store) > 0
  /\ \E s \in Sessions :
       sess[s].pc = "disconnecting" /\ sess[s].opened /\ sess[s].releases = 1

\* C24: the step that reads a data payload that cannot be decoded inserts
\* nothing: the store is unchanged and the session goes from the delta read to
\* the disconnect, the connection released.
C24_UndecodableDataIngestsNothing ==
  [][ev'.call = "badData" =>
       /\ store' = store
       /\ \E s \in Sessions :
            /\ sess[s].pc = "deltaRead"
            /\ sess'[s].pc = "disconnecting"
            /\ sess'[s].releases = 1]_vars

\* a session whose realm is open has just read an undecodable data payload
\* and awaits its disconnect; the store holds no record
C24_Witness ==
  /\ ev.call = "badData"
  /\ Len(store) = 0
  /\ \E s \in Sessions :
       /\ sess[s].pc = "disconnecting"
       /\ sess[s].releases = 1
       /\ ~RealmClosed(s)

\* the flag is set exactly when a radio scan is in flight
FlagMirrorsRadio == isScanning <=> scan.active

\* C26: the flag is set exactly when a radio scan is in flight, and the finally
\* block of a session, which clears the flag, never runs while a scan started
\* by another path is in flight.
C26_FlagFollowsRadio ==
  /\ []FlagMirrorsRadio
  /\ [][ev'.call = "finally" => ~scan.active]_vars

\* C27: every scan is started by a step that has just observed the radio
\* powered on, which only the tick of the background loop does.
C27_ScanStartsGated == ev.started => ev.call = "tick"

(* ------------------------- the service, scheduled ------------------------ *)
\* The timer of the loop fires, manager.state() and the permission request are
\* answered, and the radio is found powered on again and again.
LiveSpec ==
  /\ Init
  /\ [][Next]_vars
  /\ WF_vars(\E l \in Loops : SleepResolved(l))
  /\ WF_vars(\E granted \in BOOLEAN : PermissionResolved(granted))
  /\ SF_vars(\E l \in Loops : StateResolved(l, "PoweredOn"))

\* a background task is inside its loop
LoopAlive == \E l \in Loops : loop[l] \in {"state", "sleep"}

\* C17: no step of a session ends or moves a background task, and whenever a
\* session has left its try block (by success or by any error) or has ended (its
\* disconnect resolved or rejected) while a task is inside its loop, then later
\* a scan is in flight or the service has been stopped.
C17_LoopSurvivesErrors ==
  /\ [][(\E s \in Sessions : sess'[s].pc # sess[s].pc) => loop' = loop]_vars
  /\ \A s \in Sessions :
       [](((sess[s].pc \in {"disconnecting", "done"}) /\ LoopAlive)
            => <>(scan.active \/ ~running))

\* a session whose connect failed has ended, and a later tick of the running
\* service has just started a scan
C17_Witness ==
  /\ \E s \in Sessions : sess[s].pc = "done" /\ ~sess[s].opened
  /\ \A s \in Sessions : ~InProgress(s)
  /\ running
  /\ LoopAlive
  /\ ev.call = "tick"
  /\ ev.started
  /\ scan.active

\* the data payloads of the scheduled sessions: none, one JSON.parse rejects,
\* an empty batch and a batch of one record
SessionDataResponses ==
  {[kind |-> "none"], [kind |-> "garbage"], [kind |-> "json", value |-> <<>>],
   [kind |-> "json", value |-> <<Rec(2, "B", 1)>>]}

\* no write of the realm throws
NoThrow == [i \in 1..MaxBatch |-> FALSE]

\* the radio operation session s awaits is answered: it resolves or rejects
SessionStep(s) ==
  \/ ConnectResolved(s)
  \/ RadioOperationRejected(s)
  \/ DiscoverResolved(s)
  \/ \E response \in SummaryResponses : SummaryWriteResolved(s, response)
  \/ DataWriteResolved(s)
  \/ \E response \in SessionDataResponses : DataReadResolved(s, response, NoThrow)
  \/ DisconnectResolved(s)
  \/ DisconnectRejected(s)

\* the store holds one record when the service is constructed
SessionInit ==
  /\ CtlInit
  /\ store = <<Rec(1, "A", 1)>>
  /\ peer = NoPeer
  /\ fx = [op |-> "none"]

\* the steps of the service, the sessions reading SessionDataResponses
SessionNext ==
  \/ \E data \in {Rec(2, "B", 1)} : UpdateDeviceData(data)
  \/ StartBackgroundCommunication
  \/ StopBackgroundCommunication
  \/ \E l \in Loops : RealmOpenResolved(l)
  \/ \E l \in Loops : RealmOpenRejected(l)
  \/ \E l \in Loops, state \in {"PoweredOn", "PoweredOff", "Rejected"} :
       StateResolved(l, state)
  \/ \E l \in Loops : SleepResolved(l)
  \/ \E granted \in BOOLEAN : PermissionResolved(granted)
  \/ ScanError
  \/ ScanDeviceUnnamed
  \/ ScanDeviceFound
  \/ \E s \in Sessions : SessionStep(s)

\* Every radio operation a session awaits is eventually answered.
SessionSpec ==
  /\ SessionInit
  /\ [][SessionNext]_vars
  /\ \A s \in Sessions : WF_vars(SessionStep(s))

\* C25: a session that is in progress reaches its end, and a session that has
\* ended has issued the release of its connection exactly once.
C25_SessionTerminates ==
  /\ \A s \in Sessions :
       InProgress(s) ~> (sess[s].pc = "done" /\ sess[s].releases = 1)
  /\ [](\A s \in Sessions : sess[s].pc = "done" => sess[s].releases = 1)

\* one session has ended after a failed connect, another after its delta read
C25_Witness ==
  \E s, t \in Sessions :
    /\ sess[s].pc = "done" /\ ~sess[s].opened /\ sess[s].releases = 1
    /\ sess[t].pc = "done" /\ sess[t].opened /\ sess[t].releases = 1

(* ------------------- two devices, one session after another -------------- *)
\* The remote device takes the peripheral role of the same protocol: it answers
\* the summary write with its own summary, ingests what is written to its data
\* characteristic, and offers on its data characteristic the records the
\* central's summary shows to be missing. Payloads cross the radio encoded.

\* the record Realm creates from a decoded record, if it takes it
RealmRecord(decoded) ==
  Rec(decoded.id.value, decoded.deviceId, NewDate(decoded.timestamp).value)

\* forEach(record => handleReceivedData(record, bgRealm)) over a decoded batch.
\* The schema declares _id an objectId, and the decoded _id is a string:
\* `accepts` says whether Realm takes it for the ObjectId it spells; if not,
\* bgRealm.write throws, the error is caught and the record is not stored.
IngestDecoded(data, batch, accepts) ==
  IngestBatch(data, [i \in 1..Len(batch) |-> RealmRecord(batch[i])], 1, FALSE,
              [i \in 1..Len(batch) |->
                 batch[i].id.type # "objectId" /\ ~accepts])

\* the value the remote device returns to the summary write
PeerSummaryResponse(p) == EncodeSummary(JsSummary(GenerateDataSummary(p.store)))

\* the remote device ingests a payload written to its data characteristic
PeerIngest(p, payload, accepts) ==
  IngestDecoded(p.store, DecodeBatch(payload), accepts)

\* the value of the remote device's data characteristic when it is read
PeerDataValue(p) == EncodeBatch(JsBatch(GetMissingDataFromRemote(p.local, p.store)))

\* stores in the order of their ids
SortedStores ==
  {s \in StoreSeqs(MaxStore) :
     \A i, j \in 1..Len(s) : i < j => s[i].id < s[j].id}

\* two devices in range of each other; an id names one record on both, and a
\* device has produced one record at an instant (DisasterData.generate)
PairInit ==
  /\ CtlInit
  /\ fx = [op |-> "none"]
  /\ store \in SortedStores
  /\ \E remoteStore \in SortedStores :
       /\ \A r, q \in RecordsOf(store) \cup RecordsOf(remoteStore) :
            \/ r.id = q.id
            \/ (r.deviceId = q.deviceId /\ r.timestamp = q.timestamp)
            => r = q
       /\ peer = [NoPeer EXCEPT !.store = remoteStore]

\* connectToDevice, lines 202-215: the local summary is written and the
\* remote summary comes back with the write
PairSummaryExchange ==
  /\ peer.pc = "idle"
  /\ peer' = [peer EXCEPT
               !.pc = "summary",
               !.local = SummaryRead(DecodeSummary(
                           EncodeSummary(JsSummary(GenerateDataSummary(store))))),
               !.remote = SummaryRead(DecodeSummary(PeerSummaryResponse(peer))),
               !.written = NotWritten]
  /\ UNCHANGED <<store, ctl, fx>>

\* connectToDevice, lines 217-226: the records missing on the remote device
\* are written to its data characteristic, if there are any
PairDeltaWrite(accepts) ==
  /\ peer.pc = "summary"
  /\ LET myMissingRecordsToSend == GetMissingDataFromRemote(peer.remote, store)
         dataToSendBase64 == EncodeBatch(JsBatch(myMissingRecordsToSend))
     IN peer' = IF Len(myMissingRecordsToSend) > 0
                THEN [peer EXCEPT
                        !.pc = "delta",
                        !.written = [kind |-> "batch", payload |-> dataToSendBase64],
                        !.store = PeerIngest(peer, dataToSendBase64, accepts)]
                ELSE [peer EXCEPT !.pc = "delta"]
  /\ UNCHANGED <<store, ctl, fx>>

\* connectToDevice, lines 228-249: the data characteristic is read, the batch
\* decoded and ingested and the connection closed
PairDeltaRead(accepts) ==
  /\ peer.pc = "delta"
  /\ LET receivedDataFromRemote == DecodeBatch(PeerDataValue(peer))
     IN store' = IngestDecoded(store, receivedDataFromRemote, accepts)
  /\ peer' = [peer EXCEPT !.pc = "idle"]
  /\ UNCHANGED <<ctl, fx>>

PairNext ==
  \/ PairSummaryExchange
  \/ \E accepts \in BOOLEAN : PairDeltaWrite(accepts)
  \/ \E accepts \in BOOLEAN : PairDeltaRead(accepts)

\* the two devices keep completing sessions with each other
PairSpec == PairInit /\ [][PairNext]_vars /\ WF_vars(PairNext)

\* C6: two devices that keep completing sessions with each other, no record
\* being submitted, eventually hold the same set of record ids.
C6_StoresConverge == <>(IdsOf(store) = IdsOf(peer.store))

\* C18: when the data write of a session has completed, every record the
\* initiating device holds whose origin has no entry in the peer's summary has
\* been written to the peer's data characteristic, and the peer, having
\* ingested the payload, holds it.
C18_PushReachesPeer ==
  peer.pc = "delta" =>
    \A r \in RecordsOf(store) :
      r.deviceId \notin DOMAIN peer.remote =>
        /\ peer.written.kind = "batch"
        /\ \E i \in 1..Len(DecodeBatch(peer.written.payload)) :
             RealmRecord(DecodeBatch(peer.written.payload)[i]) = r
        /\ r \in RecordsOf(peer.store)

\* the records of origin o in a store
OfOrigin(data, o) == {r \in RecordsOf(data) : r.deviceId = o}

\* C19: when the summaries have been exchanged and both devices hold the same
\* records of an origin, neither side's reconciliation returns a record of that
\* origin; and a session step whose reconciliation result is empty writes
\* nothing to the data characteristic (the write step) or receives nothing (the
\* read step) and leaves both stores as they were.
C19_NoTransferWhenEqual ==
  /\ [](peer.pc = "summary" =>
          \A o \in Origins :
            OfOrigin(store, o) = OfOrigin(peer.store, o) =>
              /\ OfOrigin(GetMissingDataFromRemote(peer.remote, store), o) = {}
              /\ OfOrigin(GetMissingDataFromRemote(peer.local, peer.store), o) = {})
  /\ [][(/\ peer.pc = "summary"
         /\ peer'.pc = "delta"
         /\ Len(GetMissingDataFromRemote(peer.remote, store)) = 0)
          => (/\ peer'.written = NotWritten
              /\ peer'.store = peer.store
              /\ store' = store)]_vars
  /\ [][(/\ peer.pc = "delta"
         /\ peer'.pc = "idle"
         /\ Len(GetMissingDataFromRemote(peer.local, peer.store)) = 0)
          => (store' = store /\ peer'.store = peer.store)]_vars

\* a session between two devices that hold the same two records has ended:
\* nothing was written to the data characteristic and nothing was offered on it
C19_Witness ==
  /\ peer.pc = "idle"
  /\ peer.local # EmptySummary
  /\ peer.written = NotWritten
  /\ Len(GetMissingDataFromRemote(peer.local, peer.store)) = 0
  /\ Len(store) = 2
  /\ RecordsOf(store) = RecordsOf(peer.store)

(* ---------------- specification of the store operations ----------------- *)
\* the store is any store within the bounds; one operation is applied to it
\* (handleReceivedData possibly a second time with the same value)
FnInit ==
  /\ store \in StoreSeqs(MaxStore)
  /\ fx = [op |-> "none"]
  /\ peer = NoPeer
  /\ CtlInit

\* generateDataSummary(bgRealm)
FnSummary ==
  /\ fx.op = "none"
  /\ fx' = [op |-> "summary", before |-> store, out |-> GenerateDataSummary(store)]
  /\ UNCHANGED <<store, ctl, peer>>

\* getMissingDataFromRemote(remoteSummary, bgRealm)
FnMissing(remoteSummary) ==
  /\ fx.op = "none"
  /\ fx' = [op |-> "missing", before |-> store, remote |-> remoteSummary,
            out |-> GetMissingDataFromRemote(remoteSummary, store)]
  /\ UNCHANGED <<store, ctl, peer>>

\* handleReceivedData(receivedData, bgRealm), the first call with receivedData
FnIngest(receivedData, writeThrows) ==
  /\ fx.op = "none"
  /\ store' = HandleReceivedData(store, receivedData, FALSE, writeThrows)
  /\ fx' = [op |-> "ingest", before |-> store, rec |-> receivedData,
            threw |-> writeThrows, calls |-> 1, once |-> store']
  /\ UNCHANGED <<ctl, peer>>

\* handleReceivedData(receivedData, bgRealm) again with the value of the last call
FnIngestAgain(writeThrows) ==
  /\ fx.op = "ingest"
  /\ fx.calls = 1
  /\ store' = HandleReceivedData(store, fx.rec, FALSE, writeThrows)
  /\ fx' = [fx EXCEPT !.calls = 2]
  /\ UNCHANGED <<ctl, peer>>

\* a batch and a summary are encoded as connectToDevice encodes them and decoded
\* as it decodes them
FnCodec ==
  /\ fx.op = "none"
  /\ fx' = [op |-> "codec", before |-> JsBatch(store),
            out |-> DecodeBatch(EncodeBatch(JsBatch(store))),
            summary |-> JsSummary(GenerateDataSummary(store)),
            summaryOut |->
              DecodeSummary(EncodeSummary(JsSummary(GenerateDataSummary(store))))]
  /\ UNCHANGED <<store, ctl, peer>>

\* receivedDataFromRemote.forEach(record => handleReceivedData(record, bgRealm))
\* on a decoded batch; throws[i] says whether the write of the i-th record fails
FnIngestBatch(batch, throws) ==
  /\ fx.op = "none"
  /\ Len(store) + Len(batch) <= MaxStore
  /\ store' = IngestBatch(store, batch, 1, FALSE, throws)
  /\ fx' = [op |-> "batch", before |-> store, batch |-> batch, throws |-> throws]
  /\ UNCHANGED <<ctl, peer>>

\* handleReceivedData(receivedData, bgRealm) after bgRealm has been closed
FnIngestClosed(receivedData) ==
  /\ fx.op = "none"
  /\ store' = HandleReceivedData(store, receivedData, TRUE, FALSE)
  /\ fx' = [op |-> "closed", before |-> store, rec |-> receivedData]
  /\ UNCHANGED <<ctl, peer>>

FnNext ==
  \/ FnSummary
  \/ \E receivedData \in PeerValues : FnIngestClosed(receivedData)
  \/ FnCodec
  \/ /\ fx.op = "none"
     /\ \E k \in 0..MaxIngest :
          /\ Len(store) + k <= MaxStore
          /\ \E batch \in [1..k -> PeerValues], throws \in [1..k -> BOOLEAN] :
               FnIngestBatch(batch, throws)
  \/ \E remoteSummary \in RemoteSummaries : FnMissing(remoteSummary)
  \/ \E receivedData \in ReceivedValues, writeThrows \in BOOLEAN :
       FnIngest(receivedData, writeThrows)
  \/ \E writeThrows \in BOOLEAN : FnIngestAgain(writeThrows)

FnSpec == FnInit /\ [][FnNext]_vars

(* ------------------------- store operations: claims --------------------- *)
\* C7: getMissingDataFromRemote returns exactly the local records whose origin
\* has no entry in the remote summary or whose timestamp is strictly greater
\* than the remote's timestamp for that origin; a record with a timestamp less
\* than or equal to the remote value is not returned, and every returned record
\* is a record of the local store, returned once.
C7_MissingIsStrictlyNewer ==
  fx.op = "missing" =>
    /\ \A r \in RecordsOf(fx.before) :
         r \in RecordsOf(fx.out) <=>
           (r.deviceId \notin DOMAIN fx.remote
              \/ fx.remote[r.deviceId] < r.timestamp)
    /\ \A r \in RecordsOf(fx.out) :
         /\ r \in RecordsOf(fx.before)
         /\ r.deviceId \in DOMAIN fx.remote => fx.remote[r.deviceId] # r.timestamp
    /\ Cardinality(RecordsOf(fx.out)) = Len(fx.out)
    /\ store = fx.before

\* a reconciliation that pushes a strictly newer record, pushes a record of an
\* origin the remote has no entry for, and holds back a tie
C7_Witness ==
  /\ fx.op = "missing"
  /\ \E r1, r2, r3 \in RecordsOf(fx.before) :
       /\ r1.deviceId \in DOMAIN fx.remote
       /\ fx.remote[r1.deviceId] < r1.timestamp
       /\ r1 \in RecordsOf(fx.out)
       /\ r2.deviceId \in DOMAIN fx.remote
       /\ fx.remote[r2.deviceId] = r2.timestamp
       /\ r2 \notin RecordsOf(fx.out)
       /\ r3.deviceId \notin DOMAIN fx.remote
       /\ r3 \in RecordsOf(fx.out)

\* C8: generateDataSummary returns a mapping whose keys are exactly the origins
\* with a record in the store and whose value for an origin is the maximum
\* timestamp of that origin's records, in whatever order the records are
\* iterated; the store is left as it was.
C8_SummaryIsMaxPerOrigin ==
  fx.op = "summary" =>
    /\ DOMAIN fx.out = {r.deviceId : r \in RecordsOf(fx.before)}
    /\ \A o \in DOMAIN fx.out :
         /\ \E r \in RecordsOf(fx.before) :
              r.deviceId = o /\ r.timestamp = fx.out[o]
         /\ \A r \in RecordsOf(fx.before) :
              r.deviceId = o => r.timestamp <= fx.out[o]
    /\ store = fx.before

\* a summary of a store that holds two origins, the later of two records of one
\* origin iterated first
C8_Witness ==
  /\ fx.op = "summary"
  /\ Len(fx.before) = 3
  /\ \E i, j \in 1..3 :
       /\ i < j
       /\ fx.before[i].deviceId = fx.before[j].deviceId
       /\ fx.before[i].timestamp > fx.before[j].timestamp
       /\ fx.out[fx.before[i].deviceId] = fx.before[i].timestamp
  /\ Cardinality(DOMAIN fx.out) = 2

\* C9: handing handleReceivedData the same record a second time leaves the
\* store as the first call left it: the first call, when its write goes
\* through, appends the record if its id is absent and changes nothing if it is
\* present, and the second call finds the id present and changes nothing.
C9_IngestIdempotent ==
  (fx.op = "ingest" /\ ~fx.threw) =>
    /\ (fx.rec \in Records /\ fx.rec.id \notin IdsOf(fx.before))
         => fx.once = Append(fx.before, fx.rec)
    /\ (fx.rec \in Records /\ fx.rec.id \in IdsOf(fx.before))
         => fx.once = fx.before
    /\ fx.calls = 2 => store = fx.once

\* a record whose id was absent, ingested twice
C9_Witness ==
  /\ fx.op = "ingest"
  /\ ~fx.threw
  /\ fx.calls = 2
  /\ fx.rec \in Records
  /\ fx.rec.id \notin IdsOf(fx.before)
  /\ fx.rec \in RecordsOf(store)

\* C20: decoding the encoding of a batch yields the batch, every record equal
\* field for field to the record encoded, and decoding the encoding of a
\* summary yields the summary.
C20_CodecRoundTrip ==
  fx.op = "codec" => (fx.out = fx.before /\ fx.summaryOut = fx.summary)

\* C23: after a batch has been ingested, every well-formed record of the batch
\* whose own write did not fail and whose id was neither stored before nor
\* carried by an earlier record of the batch is in the store, whatever happened
\* to the other records of the batch (a failed write, a null, a record without
\* origin); the records stored before are still there, in place.
C23_BestEffortIngestion ==
  fx.op = "batch" =>
    /\ \A i \in 1..Len(fx.batch) :
         (/\ fx.batch[i] \in Records
          /\ ~fx.throws[i]
          /\ fx.batch[i].id \notin IdsOf(fx.before)
          /\ \A j \in 1..(i - 1) : fx.batch[j].id # fx.batch[i].id)
           => fx.batch[i] \in RecordsOf(store)
    /\ Len(store) >= Len(fx.before)
    /\ \A i \in 1..Len(fx.before) : store[i] = fx.before[i]

\* a batch of two records with new ids: the write of the first failed and the
\* second is stored
C23_Witness ==
  /\ fx.op = "batch"
  /\ Len(fx.batch) = 2
  /\ fx.batch[1] \in Records
  /\ fx.batch[2] \in Records
  /\ fx.throws[1]
  /\ ~fx.throws[2]
  /\ fx.batch[1].id \notin IdsOf(store)
  /\ fx.batch[2] \in RecordsOf(store)
  /\ Len(fx.before) = 1

\* C28: handleReceivedData leaves the store as it was when the realm is closed
\* and when the value is null or has no origin; a record it inserts is a
\* well-formed record, so no record of the store lacks an origin.
C28_GuardedIngestion ==
  /\ \A r \in RecordsOf(store) : r # Null /\ r.deviceId # ""
  /\ fx.op = "closed" => store = fx.before
  /\ (fx.op = "ingest" /\ fx.calls = 1) =>
       /\ (fx.rec = Null \/ fx.rec.deviceId = "") => store = fx.before
       /\ store # fx.before => (fx.rec \in Records /\ store = Append(fx.before, fx.rec))

\* a well-formed record whose id the store does not hold was handed to
\* handleReceivedData with the realm closed
C28_Witness ==
  /\ fx.op = "closed"
  /\ fx.rec \in Records
  /\ fx.rec.id \notin IdsOf(fx.before)
  /\ Len(fx.before) > 0
  /\ store = fx.before

====
